---- MODULE Spec2Model ----
(***************************************************************************)
(* A model of frankenstein_analysis_optimized.py: the corpus loader, the   *)
(* chapter/letter segmenter, the paragraph splitter, the sentiment         *)
(* annotator, the character and location aggregators and the final save.   *)
(*                                                                         *)
(* A text is a sequence of tokens [c |-> <characters>, n |-> <width>]: a   *)
(* keyword, one whitespace or numeral character, a period, or a run of n   *)
(* plain letters.  Every string operation of the script (regex search,     *)
(* slice, strip, replace, upper, split, sub, len) is modelled on tokens,   *)
(* with lengths and offsets counted in characters.                         *)
(***************************************************************************)
EXTENDS Integers, Sequences, FiniteSets, TLC

VARIABLES
    pc,                              \* the step of the script that runs next
    data_files,                      \* the *.txt files glob finds in data/
    frankenstein_df,                 \* Step 1: one row per section file read
    frankenstein_final_df,           \* Step 2: one row per chapter/letter
    frankenstein_paragraphs_df,      \* Step 3: one row per paragraph
    log,                             \* what the script has printed
    error,                           \* the uncaught exception, "" while none
    locations_csv,                   \* the rows of the curated locations file
    frankenstein_manual_locations,   \* Step 4: the curated locations loaded
    calls,                           \* the calls made to the classifier
    sentiment_scores,                \* Step 6: one dict per paragraph scored
    frankenstein_all_with_sentiment, \* Step 6: the annotated paragraph table
    character_sentiment_df,          \* Step 7: one row per character found
    frankenstein_locations_with_sentiment, \* Step 8: paragraphs x locations
    total_narrative_words,           \* Step 8: words of the whole table
    location_sentiment_summary,      \* Step 8: one row per location
    attempted,                       \* Step 9: the output files opened
    written                          \* Step 9: the output files written

inVars == <<data_files, locations_csv>>
segVars == <<frankenstein_df, frankenstein_final_df,
             frankenstein_paragraphs_df>>
scoreVars == <<calls, sentiment_scores, frankenstein_all_with_sentiment>>
aggVars == <<character_sentiment_df, frankenstein_locations_with_sentiment,
             total_narrative_words, location_sentiment_summary>>
outVars == <<attempted, written>>

vars == <<pc, log, error, inVars, frankenstein_manual_locations, segVars,
          scoreVars, aggVars, outVars>>

----------------------------------------------------------------------------
(* Bounds of the model and constants of the program.                       *)

\* the longest generated section text, in chunks
MaxChunks == 4

\* the most files in data/
MaxFiles == 2

\* the most rows in the curated locations file
MaxLocRows == 2

\* the most paragraphs of the corpus of the character analysis
MaxParas == 3

\* len(content) > 100
MinContentLen == 100

\* len(paragraph) > 10
MinParagraphLen == 10

----------------------------------------------------------------------------
(* Strings.                                                                *)

Tok(c, n) == [c |-> c, n |-> n]

SP == Tok(" ", 1)
NL == Tok("\n", 1)
DOT == Tok(".", 1)
Letters(n) == Tok("a", n)

\* \s of the regexes and the characters str.strip() removes
IsSpace(t) == t.c \in {" ", "\n"}

\* [IVX\d] under re.IGNORECASE
IsNumeral(t) == t.c \in {"I", "V", "X", "i", "v", "x", "1", "2"}

\* str.upper() on one token
UpperTok(t) ==
    CASE t.c = "chapter" -> Tok("CHAPTER", t.n)
      [] t.c = "letter" -> Tok("LETTER", t.n)
      [] t.c = "i" -> Tok("I", t.n)
      [] t.c = "v" -> Tok("V", t.n)
      [] t.c = "x" -> Tok("X", t.n)
      [] t.c = "a" -> Tok("A", t.n)
      [] OTHER -> t

\* str.upper()
Upper(s) == [k \in 1..Len(s) |-> UpperTok(s[k])]

\* len(s), in characters
RECURSIVE StrLen(_)
StrLen(s) == IF s = <<>> THEN 0 ELSE Head(s).n + StrLen(Tail(s))

\* the character offset at which token i of s starts
Offset(s, i) == StrLen(SubSeq(s, 1, i - 1))

\* the index of the first token at or after i that is not whitespace
RECURSIVE SkipSpace(_, _)
SkipSpace(s, i) ==
    IF i <= Len(s) /\ IsSpace(s[i]) THEN SkipSpace(s, i + 1) ELSE i

\* the index of the first token at or after i that is not a numeral
RECURSIVE SkipNumeral(_, _)
SkipNumeral(s, i) ==
    IF i <= Len(s) /\ IsNumeral(s[i]) THEN SkipNumeral(s, i + 1) ELSE i

\* the index of the last token at or before i that is not whitespace
RECURSIVE SkipSpaceBack(_, _)
SkipSpaceBack(s, i) ==
    IF i >= 1 /\ IsSpace(s[i]) THEN SkipSpaceBack(s, i - 1) ELSE i

\* str.strip()
Strip(s) == SubSeq(s, SkipSpace(s, 1), SkipSpaceBack(s, Len(s)))

Range(seq) == {seq[k] : k \in 1..Len(seq)}

\* str.replace('.', '')
RemoveDots(s) == SelectSeq(s, LAMBDA t : t.c # ".")

----------------------------------------------------------------------------
(* Step 2: extract_chapters_and_letters_final.                             *)

\* the keyword of a marker pattern matches token t (re.IGNORECASE)
IsKeyword(t, kw) == UpperTok(t).c = kw

\* The index of the last token of the match of  kw\s+[IVX\d]+\.?  that
\* starts at token i of s, or 0 when the pattern does not match there.
MatchAt(s, i, kw) ==
    IF i > Len(s) \/ ~IsKeyword(s[i], kw) THEN 0
    ELSE LET a == SkipSpace(s, i + 1)
             b == SkipNumeral(s, a)
         IN  IF a = i + 1 \/ b = a THEN 0
             ELSE IF b <= Len(s) /\ s[b].c = "." THEN b ELSE b - 1

\* list(re.finditer(pattern, full_text, flags=re.IGNORECASE)) from token i on:
\* each match with its tokens i..j and its start() and end() offsets
RECURSIVE FindIterFrom(_, _, _)
FindIterFrom(s, i, kw) ==
    IF i > Len(s) THEN <<>>
    ELSE LET j == MatchAt(s, i, kw)
         IN  IF j = 0 THEN FindIterFrom(s, i + 1, kw)
             ELSE <<[kind |-> kw, i |-> i, j |-> j,
                     start |-> Offset(s, i), end |-> Offset(s, j + 1)]>>
                  \o FindIterFrom(s, j + 1, kw)

chapter_matches(full_text) == FindIterFrom(full_text, 1, "CHAPTER")

letter_matches(full_text) == FindIterFrom(full_text, 1, "LETTER")

\* an inner loop in which the last chapter has no span to end-of-text
is_embedded_no_last_span(full_text, letter_match) ==
    LET ch == chapter_matches(full_text)
    IN  \E i \in 1..(Len(ch) - 1) :
            /\ ch[i].start < letter_match.start
            /\ letter_match.start < ch[i + 1].start

\* the inner loop over chapter_matches: is_embedded
is_embedded(full_text, letter_match) ==
    LET ch == chapter_matches(full_text)
    IN  \E i \in 1..Len(ch) :
            LET chapter_start == ch[i].start
                chapter_end == IF i + 1 <= Len(ch) THEN ch[i + 1].start
                               ELSE StrLen(full_text)
            IN  chapter_start < letter_match.start
                /\ letter_match.start < chapter_end

\* a filter that keeps every letter marker
filtered_letter_matches_keep_all(full_text) == letter_matches(full_text)

filtered_letter_matches(full_text) ==
    SelectSeq(letter_matches(full_text),
              LAMBDA m : ~is_embedded(full_text, m))

\* chapter_matches + filtered_letter_matches, left unsorted
all_matches_unsorted(full_text) ==
    chapter_matches(full_text) \o filtered_letter_matches(full_text)

\* chapter_matches + filtered_letter_matches, sorted by start()
all_matches(full_text) ==
    SortSeq(chapter_matches(full_text) \o filtered_letter_matches(full_text),
            LAMBDA x, y : x.start < y.start)

\* match.group(1).replace('.', '').strip().upper()
title(full_text, match) ==
    Upper(Strip(RemoveDots(SubSeq(full_text, match.i, match.j))))

\* full_text[start_pos:end_pos].strip() of the i-th surviving match
content(full_text, ms, i) ==
    LET last == IF i + 1 <= Len(ms) THEN ms[i + 1].i - 1 ELSE Len(full_text)
    IN  Strip(SubSeq(full_text, ms[i].j + 1, last))

CLOSING_LETTERS == <<Tok("CLOSING", 7), SP, Tok("LETTERS", 7)>>

\* a loop that keeps a unit whose content has exactly 100 characters
RECURSIVE process_matches_keep_100(_, _, _, _)
process_matches_keep_100(text_section, full_text, ms, i) ==
    IF i > Len(ms) THEN <<>>
    ELSE (IF StrLen(content(full_text, ms, i)) >= MinContentLen
          THEN <<[text_section |-> text_section,
                  chapter_letter |-> title(full_text, ms[i]),
                  full_text |-> content(full_text, ms, i)]>>
          ELSE <<>>)
         \o process_matches_keep_100(text_section, full_text, ms, i + 1)

\* the loop over all_matches, from the i-th match on
RECURSIVE process_matches(_, _, _, _)
process_matches(text_section, full_text, ms, i) ==
    IF i > Len(ms) THEN <<>>
    ELSE (IF StrLen(content(full_text, ms, i)) > MinContentLen
          THEN <<[text_section |-> text_section,
                  chapter_letter |-> title(full_text, ms[i]),
                  full_text |-> content(full_text, ms, i)]>>
          ELSE <<>>)
         \o process_matches(text_section, full_text, ms, i + 1)

extract_chapters_and_letters_final(text_section, full_text) ==
    IF text_section = "closing_letters"
    THEN <<[text_section |-> text_section,
            chapter_letter |-> CLOSING_LETTERS,
            full_text |-> Strip(full_text)]>>
    ELSE process_matches(text_section, full_text, all_matches(full_text), 1)

----------------------------------------------------------------------------
(* Step 3: split_into_paragraphs.                                          *)

\* the last newline at or before token e
RECURSIVE LastNewline(_, _)
LastNewline(s, e) == IF s[e].c = "\n" THEN e ELSE LastNewline(s, e - 1)

\* The last token of the match of  \n\s*\n  that starts at token p of s, or 0:
\* \s* is greedy, so the match runs to the last newline of the whitespace run.
SeparatorAt(s, p) ==
    IF p > Len(s) \/ s[p].c # "\n" THEN 0
    ELSE LET q == LastNewline(s, SkipSpace(s, p) - 1)
         IN  IF q > p THEN q ELSE 0

\* re.split(r'\n\s*\n', s): the fragments of s from token i on, the current
\* fragment having started at token from
RECURSIVE ReSplit(_, _, _)
ReSplit(s, from, i) ==
    IF i > Len(s) THEN <<SubSeq(s, from, Len(s))>>
    ELSE LET q == SeparatorAt(s, i)
         IN  IF q = 0 THEN ReSplit(s, from, i + 1)
             ELSE <<SubSeq(s, from, i - 1)>> \o ReSplit(s, q + 1, q + 1)

\* re.sub(r'\s+', ' ', s)
RECURSIVE CollapseSpace(_)
CollapseSpace(s) ==
    IF s = <<>> THEN <<>>
    ELSE IF IsSpace(s[1])
         THEN <<SP>> \o CollapseSpace(SubSeq(s, SkipSpace(s, 1), Len(s)))
         ELSE <<s[1]>> \o CollapseSpace(Tail(s))

\* a normalization that trims and leaves the inner whitespace as it is
normalize_strip_only(paragraph) == Strip(paragraph)

\* paragraph.strip() and re.sub(r'\s+', ' ', paragraph)
normalize(paragraph) == CollapseSpace(Strip(paragraph))

\* whether fragment k (1-based) of the split is kept: len(paragraph) > 10
IsKept(paragraph_splits, k) ==
    StrLen(normalize(paragraph_splits[k])) > MinParagraphLen

\* numbering by position among the paragraphs kept
paragraph_number_dense(paragraph_splits, i) ==
    1 + Cardinality({k \in 1..i : IsKept(paragraph_splits, k)})

\* 'paragraph_number': i + 1, i the index of the fragment in the split
paragraph_number(paragraph_splits, i) == i + 1

\* the loop over enumerate(paragraph_splits), from (0-based) index i on
RECURSIVE paragraphs_from(_, _, _, _)
paragraphs_from(text_section, chapter_letter, paragraph_splits, i) ==
    IF i >= Len(paragraph_splits) THEN <<>>
    ELSE LET paragraph == normalize(paragraph_splits[i + 1])
         IN  (IF StrLen(paragraph) > MinParagraphLen
              THEN <<[text_section |-> text_section,
                      chapter_letter |-> chapter_letter,
                      paragraph_number |-> paragraph_number(paragraph_splits, i),
                      paragraph_text |-> paragraph]>>
              ELSE <<>>)
             \o paragraphs_from(text_section, chapter_letter,
                                paragraph_splits, i + 1)

split_into_paragraphs(text_section, chapter_letter, full_text) ==
    paragraphs_from(text_section, chapter_letter,
                    ReSplit(full_text, 1, 1), 0)

----------------------------------------------------------------------------
(* The script, step by step.                                               *)

\* Step 1: the loop over txt_files
RECURSIVE read_files(_)
read_files(files) ==
    IF files = <<>> THEN <<>>
    ELSE (IF Head(files).prefixed /\ Head(files).readable
          THEN <<[text_section |-> Head(files).text_section,
                  full_text |-> Head(files).full_text]>>
          ELSE <<>>)
         \o read_files(Tail(files))

\* what Step 1 prints per file
RECURSIVE read_messages(_)
read_messages(files) ==
    IF files = <<>> THEN <<>>
    ELSE (IF ~Head(files).prefixed THEN <<>>
          ELSE IF Head(files).readable
               THEN <<[msg |-> "Read", section |-> Head(files).text_section,
                       n |-> StrLen(Head(files).full_text)]>>
               ELSE <<[msg |-> "Error reading",
                       section |-> Head(files).text_section, n |-> 0]>>)
         \o read_messages(Tail(files))

\* Step 2: the loop over frankenstein_df.iterrows()
RECURSIVE extract_all(_)
extract_all(rows) ==
    IF rows = <<>> THEN <<>>
    ELSE extract_chapters_and_letters_final(Head(rows).text_section,
                                            Head(rows).full_text)
         \o extract_all(Tail(rows))

\* Step 3: the loop over frankenstein_final_df.iterrows()
RECURSIVE split_all(_)
split_all(rows) ==
    IF rows = <<>> THEN <<>>
    ELSE split_into_paragraphs(Head(rows).text_section,
                               Head(rows).chapter_letter,
                               Head(rows).full_text)
         \o split_all(Tail(rows))

Step1 ==
    /\ pc = "step1"
    /\ frankenstein_df' = read_files(data_files)
    /\ log' = log \o <<[msg |-> "Found", section |-> "", n |-> Len(data_files)]>>
                  \o read_messages(data_files)
    /\ pc' = "step2"
    /\ UNCHANGED <<frankenstein_final_df, frankenstein_paragraphs_df>>
    /\ UNCHANGED <<error, inVars, frankenstein_manual_locations, scoreVars,
                   aggVars, outVars>>

Step2 ==
    /\ pc = "step2"
    /\ frankenstein_final_df' = extract_all(frankenstein_df)
    /\ log' = Append(log, [msg |-> "Extracted", section |-> "",
                           n |-> Len(extract_all(frankenstein_df))])
    /\ pc' = "step3"
    /\ UNCHANGED <<frankenstein_df, frankenstein_paragraphs_df>>
    /\ UNCHANGED <<error, inVars, frankenstein_manual_locations, scoreVars,
                   aggVars, outVars>>

Step3 ==
    /\ pc = "step3"
    /\ frankenstein_paragraphs_df' = split_all(frankenstein_final_df)
    /\ log' = Append(log, [msg |-> "Created", section |-> "",
                           n |-> Len(split_all(frankenstein_final_df))])
    /\ pc' = "step4"
    /\ UNCHANGED <<frankenstein_df, frankenstein_final_df>>
    /\ UNCHANGED <<error, inVars, frankenstein_manual_locations, scoreVars,
                   aggVars, outVars>>

----------------------------------------------------------------------------
(* Steps 4 to 6: the curated locations, the classifier, the annotation.    *)

\* a missing value (None, NaN) and a present one
None == <<>>
Some(v) == <<v>>
IsNull(x) == x = None
Val(x) == x[1]

Say(msg, n) == [msg |-> msg, section |-> "", n |-> n]

\* Step 4, pd.read_csv succeeds
Step4 ==
    /\ pc = "step4"
    /\ frankenstein_manual_locations' = locations_csv
    /\ log' = Append(log, Say("Loaded manual locations", Len(locations_csv)))
    /\ pc' = "step5"
    /\ UNCHANGED <<error, inVars, segVars, scoreVars, aggVars, outVars>>

\* a Step 4 that goes on without the file
Step4MissingGoesOn ==
    /\ pc = "step4"
    /\ log' = Append(log, Say("Manual locations file not found", 0))
    /\ pc' = "step5"
    /\ UNCHANGED <<error, inVars, frankenstein_manual_locations, segVars,
                   scoreVars, aggVars, outVars>>

\* Step 4, pd.read_csv raises FileNotFoundError: exit()
Step4Missing ==
    /\ pc = "step4"
    /\ log' = Append(log, Say("Manual locations file not found", 0))
    /\ pc' = "exited"
    /\ UNCHANGED <<error, inVars, frankenstein_manual_locations, segVars,
                   scoreVars, aggVars, outVars>>

\* Step 5, from_pretrained succeeds
Step5 ==
    /\ pc = "step5"
    /\ log' = Append(log, Say("RoBERTa model loaded successfully", 0))
    /\ pc' = "step6"
    /\ UNCHANGED <<error, inVars, frankenstein_manual_locations, segVars,
                   scoreVars, aggVars, outVars>>

\* Step 5, from_pretrained raises: exit()
Step5Fails ==
    /\ pc = "step5"
    /\ log' = Append(log, Say("Error loading model", 0))
    /\ pc' = "exited"
    /\ UNCHANGED <<error, inVars, frankenstein_manual_locations, segVars,
                   scoreVars, aggVars, outVars>>

\* What the classifier does with one text: it raises (ok = FALSE), or its
\* softmax gives three probabilities, here in tenths.
ScorerOutcomes ==
    { [ok |-> FALSE, neg |-> 0, neu |-> 0, pos |-> 0],
      [ok |-> TRUE, neg |-> 2, neu |-> 3, pos |-> 5],
      [ok |-> TRUE, neg |-> 5, neu |-> 3, pos |-> 2],
      [ok |-> TRUE, neg |-> 3, neu |-> 4, pos |-> 3] }

\* a scorer whose compound leaves the neutral weight out
polarity_scores_roberta_unweighted(scores) ==
    [roberta_neg |-> Some(scores.neg),
     roberta_neu |-> Some(scores.neu),
     roberta_pos |-> Some(scores.pos),
     roberta_compound |-> Some((scores.pos - scores.neg) * 10)]

\* polarity_scores_roberta, given the softmax of the text: neg, neu and pos in
\* tenths, the compound (pos - neg) * (1 - neu) in hundredths
polarity_scores_roberta(scores) ==
    [roberta_neg |-> Some(scores.neg),
     roberta_neu |-> Some(scores.neu),
     roberta_pos |-> Some(scores.pos),
     roberta_compound |-> Some((scores.pos - scores.neg) * (10 - scores.neu))]

\* add_sentiment_scores: the except branch returns four None
add_sentiment_scores(outcome) ==
    IF outcome.ok THEN polarity_scores_roberta(outcome)
    ELSE [roberta_neg |-> None, roberta_neu |-> None,
          roberta_pos |-> None, roberta_compound |-> None]

\* a concat that pairs the paragraphs with the scores in reverse order
concat_reversed(paragraphs, scores) ==
    [i \in 1..Len(paragraphs) |->
        paragraphs[i] @@ scores[Len(paragraphs) + 1 - i]]

\* pd.concat([frankenstein_paragraphs_df.reset_index(drop=True),
\*            sentiment_df], axis=1)
concat_columns(paragraphs, scores) ==
    [i \in 1..Len(paragraphs) |-> paragraphs[i] @@ scores[i]]

\* Step 6, frankenstein_paragraphs_df['paragraph_text'] on a table built from
\* no rows, which has no columns: KeyError
Step6NoColumn ==
    /\ pc = "step6"
    /\ frankenstein_paragraphs_df = <<>>
    /\ error' = "KeyError: 'paragraph_text'"
    /\ pc' = "crashed"
    /\ UNCHANGED <<log, inVars, frankenstein_manual_locations, segVars,
                   scoreVars, aggVars, outVars>>

\* Step 6, progress_apply: add_sentiment_scores on the next paragraph
Step6Apply ==
    /\ pc = "step6"
    /\ Len(sentiment_scores) < Len(frankenstein_paragraphs_df)
    /\ \E outcome \in ScorerOutcomes :
          /\ calls' = Append(calls,
                 [text |-> frankenstein_paragraphs_df[Len(sentiment_scores) + 1]
                             .paragraph_text,
                  outcome |-> outcome])
          /\ sentiment_scores' =
                 Append(sentiment_scores, add_sentiment_scores(outcome))
    /\ UNCHANGED <<pc, log, error, inVars, frankenstein_manual_locations,
                   segVars, frankenstein_all_with_sentiment, aggVars, outVars>>

\* Step 6, convert to DataFrame and merge
Step6Concat ==
    /\ pc = "step6"
    /\ frankenstein_paragraphs_df # <<>>
    /\ Len(sentiment_scores) = Len(frankenstein_paragraphs_df)
    /\ frankenstein_all_with_sentiment' =
          concat_columns(frankenstein_paragraphs_df, sentiment_scores)
    /\ log' = Append(log, Say("Sentiment analysis complete",
                              Len(frankenstein_paragraphs_df)))
    /\ pc' = "step7"
    /\ UNCHANGED <<error, inVars, frankenstein_manual_locations, segVars,
                   calls, sentiment_scores, aggVars, outVars>>

----------------------------------------------------------------------------
(* Step 7: character analysis.                                             *)

\* compound > 0.1 and compound < -0.1, the compound in hundredths
PositiveAbove == 10
NegativeBelow == -10

\* paragraph_text[:150]
SnippetLen == 150

\* principal_characters, each variant a sequence of words
principal_characters ==
    << [name |-> "Victor", variants |-> << <<"Victor">>, <<"Frankenstein">> >>],
       [name |-> "Elizabeth", variants |-> << <<"Elizabeth">> >>],
       [name |-> "Henry", variants |-> << <<"Henry">>, <<"Clerval">> >>],
       [name |-> "Justine", variants |-> << <<"Justine">> >>],
       [name |-> "Felix", variants |-> << <<"Felix">> >>],
       [name |-> "Agatha", variants |-> << <<"Agatha">> >>],
       [name |-> "Monster",
        variants |-> << <<"monster">>, <<"creature">>, <<"fiend">>,
                        <<"daemon">> >>],
       [name |-> "William", variants |-> << <<"William">> >>],
       [name |-> "Ernest", variants |-> << <<"Ernest">> >>],
       [name |-> "Father",
        variants |-> << <<"Alphonse">>, <<"father">>, <<"my", " ", "father">>,
                        <<"his", " ", "father">> >>],
       [name |-> "Mother",
        variants |-> << <<"Caroline">>, <<"mother">>, <<"my", " ", "mother">>,
                        <<"his", " ", "mother">> >>] >>

\* str.lower() on one word
LowerWord(w) ==
    CASE w \in {"Victor", "VICTOR"} -> "victor"
      [] w = "Frankenstein" -> "frankenstein"
      [] w = "Elizabeth" -> "elizabeth"
      [] w = "Henry" -> "henry"
      [] w = "Clerval" -> "clerval"
      [] w = "Justine" -> "justine"
      [] w = "Felix" -> "felix"
      [] w = "Agatha" -> "agatha"
      [] w \in {"Monster", "MONSTER"} -> "monster"
      [] w = "William" -> "william"
      [] w \in {"Ernest", "ERNEST"} -> "ernest"
      [] w = "Ernestine" -> "ernestine"
      [] w = "Alphonse" -> "alphonse"
      [] w = "Caroline" -> "caroline"
      [] w \in {"CHAPTER", "chapter"} -> "chapter"
      [] w \in {"LETTER", "letter"} -> "letter"
      [] w = "I" -> "i"
      [] w = "V" -> "v"
      [] w = "X" -> "x"
      [] OTHER -> w

\* a comparison of whole words only
WordEquals(w, v) == w = v

\* the lower-case word v occurs inside the lower-case word w
WordContains(w, v) ==
    \/ w = v
    \/ <<w, v>> \in { <<"ernestine", "ernest">>, <<"grandfather", "father">>,
                      <<"grandmother", "mother">> }

\* variant in text, both lower-case: the variant's words occur in a row
IsSubstring(variant, text) ==
    \E o \in 0..(Len(text) - Len(variant)) :
        \A k \in 1..Len(variant) : WordContains(text[o + k], variant[k])

\* contains_character
contains_character(text, character_variants) ==
    LET text_lower == [k \in 1..Len(text) |-> LowerWord(text[k].c)]
    IN  \E v \in 1..Len(character_variants) :
            IsSubstring([k \in 1..Len(character_variants[v]) |->
                            LowerWord(character_variants[v][k])],
                        text_lower)

\* len(text.split()): the whitespace-delimited words of a text
WordCount(text) ==
    Cardinality({k \in 1..Len(text) :
        ~IsSpace(text[k]) /\ (k = 1 \/ IsSpace(text[k - 1]))})

\* text[:k]
RECURSIVE Take(_, _)
Take(text, k) ==
    IF text = <<>> \/ k = 0 THEN <<>>
    ELSE IF Head(text).n <= k
         THEN <<Head(text)>> \o Take(Tail(text), k - Head(text).n)
         ELSE <<Tok(Head(text).c, k)>>

\* Series.sum() of a column of numbers
RECURSIVE SumOf(_)
SumOf(values) ==
    IF values = <<>> THEN 0 ELSE Head(values) + SumOf(Tail(values))

\* Series.mean() of a column: the sum and the count of the values that are
\* not null (the mean is NaN when the count is 0)
MeanOf(values) ==
    LET present == SelectSeq(values, LAMBDA v : ~IsNull(v))
    IN  [sum |-> SumOf([k \in 1..Len(present) |-> Val(present[k])]),
         count |-> Len(present)]

\* the word counts of the rows of a table at the indices idx
WordCounts(table, idx) ==
    [k \in 1..Len(idx) |-> WordCount(table[idx[k]].paragraph_text)]

\* the rows of the table whose text names the character:
\* character_paragraphs, as the index labels it keeps
character_paragraphs(table, variants) ==
    SelectSeq([i \in 1..Len(table) |-> i],
              LAMBDA i : contains_character(table[i].paragraph_text, variants))

\* an idxmax() / idxmin() that returns the last index with the extreme value
idx_extreme_last(table, idx, sign) ==
    LET present == SelectSeq(idx, LAMBDA i : ~IsNull(table[i].roberta_compound))
        v(i) == sign * Val(table[i].roberta_compound)
    IN  IF present = <<>> THEN 0
        ELSE CHOOSE i \in Range(present) :
                /\ \A j \in Range(present) : v(j) <= v(i)
                /\ \A j \in Range(present) : v(j) = v(i) => i >= j

\* Series.idxmax() / idxmin() of roberta_compound over the rows idx: the first
\* index with the extreme value, nulls skipped; 0 when every value is null
idx_extreme(table, idx, sign) ==
    LET present == SelectSeq(idx, LAMBDA i : ~IsNull(table[i].roberta_compound))
        v(i) == sign * Val(table[i].roberta_compound)
    IN  IF present = <<>> THEN 0
        ELSE CHOOSE i \in Range(present) :
                /\ \A j \in Range(present) : v(j) <= v(i)
                /\ \A j \in Range(present) : v(j) = v(i) => i <= j

\* a count of the rows whose compound is zero or more
positive_count_from_zero(table, idx) ==
    Len(SelectSeq(idx, LAMBDA i : ~IsNull(table[i].roberta_compound)
                                  /\ Val(table[i].roberta_compound) >= 0))

\* sum(character_paragraphs['roberta_compound'] > 0.1): a null compares False
positive_count(table, idx) ==
    Len(SelectSeq(idx, LAMBDA i : ~IsNull(table[i].roberta_compound)
                        /\ Val(table[i].roberta_compound) > PositiveAbove))

\* sum(character_paragraphs['roberta_compound'] < -0.1)
negative_count(table, idx) ==
    Len(SelectSeq(idx, LAMBDA i : ~IsNull(table[i].roberta_compound)
                        /\ Val(table[i].roberta_compound) < NegativeBelow))

\* the dict appended for one character with matching paragraphs
character_row(table, character) ==
    LET idx == character_paragraphs(table, character.variants)
        compound(i) == table[i].roberta_compound
        most_positive_idx == idx_extreme(table, idx, 1)
        most_negative_idx == idx_extreme(table, idx, -1)
    IN  [Character |-> character.name,
         Total_Mentions |-> Len(idx),
         Total_Words |-> SumOf(WordCounts(table, idx)),
         Avg_Sentiment |-> MeanOf([k \in 1..Len(idx) |-> compound(idx[k])]),
         Positive_Mentions |-> positive_count(table, idx),
         Negative_Mentions |-> negative_count(table, idx),
         Neutral_Mentions |-> Len(idx) - positive_count(table, idx)
                                       - negative_count(table, idx),
         Most_Positive_Score |-> compound(most_positive_idx),
         Most_Negative_Score |-> compound(most_negative_idx),
         Most_Positive_Text |->
             Take(table[most_positive_idx].paragraph_text, SnippetLen)
             \o <<Tok("...", 3)>>,
         Most_Negative_Text |->
             Take(table[most_negative_idx].paragraph_text, SnippetLen)
             \o <<Tok("...", 3)>>]

\* the characters with at least one matching paragraph, in dict order
characters_found(table) ==
    SelectSeq(principal_characters,
              LAMBDA c : character_paragraphs(table, c.variants) # <<>>)

\* idxmax() finds no value for a character whose matching paragraphs all have
\* a null compound, and .loc[...] on its result raises
idxmax_raises(table) ==
    \E c \in Range(characters_found(table)) :
        idx_extreme(table, character_paragraphs(table, c.variants), 1) = 0

\* character_sentiment_data, before the sort
character_sentiment_data(table) ==
    [k \in 1..Len(characters_found(table)) |->
        character_row(table, characters_found(table)[k])]

\* mean a >= mean b
MeanGeq(a, b) == a.sum * b.count >= b.sum * a.count

\* sort_values('Avg_Sentiment', ascending=False): the orders the rows may
\* come out in (rows of equal mean in either order)
sort_values_descending(rows) ==
    LET n == Len(rows)
        perms == {f \in [1..n -> 1..n] : \A a, b \in 1..n : a # b => f[a] # f[b]}
    IN  { [k \in 1..n |-> rows[f[k]]] :
            f \in {g \in perms :
                     \A k \in 1..(n - 1) :
                        MeanGeq(rows[g[k]].Avg_Sentiment,
                                rows[g[k + 1]].Avg_Sentiment)} }

\* Step 7, a character's matching paragraphs all have a null compound
Step7IdxmaxRaises ==
    /\ pc = "step7"
    /\ idxmax_raises(frankenstein_all_with_sentiment)
    /\ error' = "idxmax: every roberta_compound is null"
    /\ pc' = "crashed"
    /\ UNCHANGED <<log, inVars, frankenstein_manual_locations, segVars,
                   scoreVars, aggVars, outVars>>

\* Step 7, no character is named in any paragraph: the DataFrame built from
\* no rows has no 'Avg_Sentiment' column for sort_values
Step7NoColumn ==
    /\ pc = "step7"
    /\ characters_found(frankenstein_all_with_sentiment) = <<>>
    /\ error' = "KeyError: 'Avg_Sentiment'"
    /\ pc' = "crashed"
    /\ UNCHANGED <<log, inVars, frankenstein_manual_locations, segVars,
                   scoreVars, aggVars, outVars>>

\* Step 7, the loop over principal_characters and the sort
Step7 ==
    /\ pc = "step7"
    /\ characters_found(frankenstein_all_with_sentiment) # <<>>
    /\ ~idxmax_raises(frankenstein_all_with_sentiment)
    /\ character_sentiment_df' \in sort_values_descending(
          character_sentiment_data(frankenstein_all_with_sentiment))
    /\ log' = Append(log, Say("Character analysis complete",
          Len(characters_found(frankenstein_all_with_sentiment))))
    /\ pc' = "step8"
    /\ UNCHANGED <<error, inVars, frankenstein_manual_locations, segVars,
                   scoreVars, frankenstein_locations_with_sentiment,
                   total_narrative_words, location_sentiment_summary, outVars>>

----------------------------------------------------------------------------
(* Step 8: location sentiment analysis.                                    *)

\* the curated names of the model, in the order groupby sorts them
LocationNames == <<"Geneva", "Ingolstadt">>

\* .dropna(subset=[lat_col, lon_col])
location_mapping(manual_locations) ==
    SelectSeq(manual_locations, LAMBDA r : ~IsNull(r.lat) /\ ~IsNull(r.lon))

\* a merge that leaves paragraph_number out of the key
same_key_any_paragraph(p, r) ==
    /\ p.text_section = r.text_section
    /\ p.chapter_letter = r.chapter_letter

\* on=['text_section', 'chapter_letter', 'paragraph_number']
same_key(p, r) ==
    /\ p.text_section = r.text_section
    /\ p.chapter_letter = r.chapter_letter
    /\ p.paragraph_number = r.paragraph_number

\* the rows of the inner merge that one paragraph gives, with word_count
RECURSIVE merge_row(_, _)
merge_row(p, mapping) ==
    IF mapping = <<>> THEN <<>>
    ELSE (IF same_key(p, Head(mapping))
          THEN <<p @@ [curated_name |-> Head(mapping).curated_name,
                       lat |-> Head(mapping).lat, lon |-> Head(mapping).lon,
                       word_count |-> WordCount(p.paragraph_text)]>>
          ELSE <<>>)
         \o merge_row(p, Tail(mapping))

\* frankenstein_all_with_sentiment.merge(location_mapping, how='inner')
RECURSIVE merge_inner(_, _)
merge_inner(table, mapping) ==
    IF table = <<>> THEN <<>>
    ELSE merge_row(Head(table), mapping) \o merge_inner(Tail(table), mapping)

\* a total that counts the words of the merged rows only
narrative_words_of_merged(table, merged) ==
    SumOf([i \in 1..Len(merged) |-> merged[i].word_count])

\* frankenstein_all_with_sentiment['paragraph_text'].str.split().str.len().sum()
narrative_words(table, merged) ==
    SumOf(WordCounts(table, [i \in 1..Len(table) |-> i]))

\* the group keys of groupby(['curated_name', lat_col, lon_col]): a row with
\* a null curated_name is in no group
group_keys(merged) ==
    { <<Val(r.curated_name), Val(r.lat), Val(r.lon)>> :
        r \in {x \in Range(merged) : ~IsNull(x.curated_name)} }

NameRank(name) == CHOOSE k \in 1..Len(LocationNames) : LocationNames[k] = name

\* the order of the group keys
KeyLess(a, b) ==
    \/ NameRank(a[1]) < NameRank(b[1])
    \/ a[1] = b[1] /\ a[2] < b[2]
    \/ a[1] = b[1] /\ a[2] = b[2] /\ a[3] < b[3]

\* the keys in sorted order
RECURSIVE sorted_keys(_)
sorted_keys(keys) ==
    IF keys = {} THEN <<>>
    ELSE LET first == CHOOSE k \in keys : \A o \in keys \ {k} : KeyLess(k, o)
         IN  <<first>> \o sorted_keys(keys \ {first})

\* round(words / total * 100, 2), in hundredths of a percent, ties to even
narrative_percent(words, total) ==
    LET q == (words * 10000) \div total
        r == (words * 10000) % total
    IN  IF 2 * r > total \/ (2 * r = total /\ q % 2 = 1) THEN q + 1 ELSE q

\* categorize_sentiment of a mean: NaN fails both comparisons
categorize_sentiment(score) ==
    IF score.count > 0 /\ score.sum > PositiveAbove * score.count
    THEN "Positive"
    ELSE IF score.count > 0 /\ score.sum < NegativeBelow * score.count
         THEN "Negative"
         ELSE "Neutral"

\* one row of the aggregate, for one group key
location_row(merged, key, total) ==
    LET idx == SelectSeq([i \in 1..Len(merged) |-> i],
                   LAMBDA i : /\ ~IsNull(merged[i].curated_name)
                              /\ <<Val(merged[i].curated_name),
                                    Val(merged[i].lat), Val(merged[i].lon)>> = key)
        group == [k \in 1..Len(idx) |-> merged[idx[k]]]
        total_words == SumOf([k \in 1..Len(idx) |-> group[k].word_count])
        avg_sentiment ==
            MeanOf([k \in 1..Len(idx) |-> group[k].roberta_compound])
    IN  [curated_name |-> key[1], lat |-> key[2], lon |-> key[3],
         total_words |-> total_words,
         avg_sentiment |-> avg_sentiment,
         roberta_pos |-> MeanOf([k \in 1..Len(idx) |-> group[k].roberta_pos]),
         roberta_neg |-> MeanOf([k \in 1..Len(idx) |-> group[k].roberta_neg]),
         roberta_neu |-> MeanOf([k \in 1..Len(idx) |-> group[k].roberta_neu]),
         paragraph_count |-> Len(idx),
         narrative_percent |-> narrative_percent(total_words, total),
         sentiment_category |-> categorize_sentiment(avg_sentiment)]

\* groupby(...).agg(...).reset_index(), renamed, with narrative_percent and
\* sentiment_category
summarize_locations(merged, total) ==
    [k \in 1..Cardinality(group_keys(merged)) |->
        location_row(merged, sorted_keys(group_keys(merged))[k], total)]

Step8 ==
    /\ pc = "step8"
    /\ LET merged == merge_inner(frankenstein_all_with_sentiment,
                          location_mapping(frankenstein_manual_locations))
           total == narrative_words(frankenstein_all_with_sentiment, merged)
       IN  /\ frankenstein_locations_with_sentiment' = merged
           /\ total_narrative_words' = total
           /\ location_sentiment_summary' = summarize_locations(merged, total)
           /\ log' = Append(log, Say("Location sentiment analysis complete",
                                     Cardinality(group_keys(merged))))
    /\ pc' = "step9"
    /\ UNCHANGED <<error, inVars, frankenstein_manual_locations, segVars,
                   scoreVars, character_sentiment_df, outVars>>

----------------------------------------------------------------------------
(* Step 9: the output files, and the final summary.                        *)

\* the files Step 9 writes, in the order it writes them
OutputFiles ==
    << "frankenstein_all_paragraphs_with_sentiment.parquet",
       "frankenstein_all_with_sentiment.csv",
       "frankenstein_character_sentiment.parquet",
       "frankenstein_location_sentiment.parquet",
       "frankenstein_manual_locations.parquet" >>

\* Step 9, the next to_parquet / to_csv succeeds
Step9Write ==
    /\ pc = "step9"
    /\ Len(attempted) < Len(OutputFiles)
    /\ attempted' = Append(attempted, OutputFiles[Len(attempted) + 1])
    /\ written' = Append(written, OutputFiles[Len(attempted) + 1])
    /\ UNCHANGED <<pc, log, error, inVars, frankenstein_manual_locations,
                   segVars, scoreVars, aggVars>>

\* Step 9, the next to_parquet / to_csv raises: nothing catches it
Step9WriteFails ==
    /\ pc = "step9"
    /\ Len(attempted) < Len(OutputFiles)
    /\ attempted' = Append(attempted, OutputFiles[Len(attempted) + 1])
    /\ error' = "OSError: write failed"
    /\ pc' = "crashed"
    /\ UNCHANGED <<log, inVars, frankenstein_manual_locations, segVars,
                   scoreVars, aggVars, written>>

\* the closing prints
StepSummary ==
    /\ pc = "step9"
    /\ Len(attempted) = Len(OutputFiles)
    /\ log' = log \o << Say("Saved parquet files", 0),
                        Say("Total paragraphs",
                            Len(frankenstein_all_with_sentiment)),
                        Say("Characters analyzed", Len(character_sentiment_df)),
                        Say("Locations analyzed",
                            Len(location_sentiment_summary)) >>
    /\ pc' = "done"
    /\ UNCHANGED <<error, inVars, frankenstein_manual_locations, segVars,
                   scoreVars, aggVars, outVars>>

----------------------------------------------------------------------------
(* Section texts for the segmenter and the splitter.                       *)

Chunks ==
    { <<Tok("chapter", 7), SP, Tok("I", 1), DOT>>,
      <<Tok("CHAPTER", 7), SP, Tok("V", 1)>>,
      <<Tok("LETTER", 6), SP, Tok("I", 1)>>,
      <<Tok("LETTER", 6), SP, Tok("X", 1), DOT, NL, Letters(101)>>,
      <<Letters(101)>>, <<Letters(100)>>, <<Letters(11)>>, <<Letters(10)>>,
      <<NL, SP, NL>>, <<SP, NL>> }

RECURSIVE TextsOf(_)
TextsOf(k) ==
    IF k = 0 THEN {<<>>}
    ELSE LET shorter == TextsOf(k - 1)
         IN  shorter \cup {t \o c : t \in shorter, c \in Chunks}

\* the state before the first statement, the input files apart
InitScript ==
    /\ pc = "step1"
    /\ log = <<>>
    /\ error = ""
    /\ frankenstein_df = <<>>
    /\ frankenstein_final_df = <<>>
    /\ frankenstein_paragraphs_df = <<>>
    /\ frankenstein_manual_locations = <<>>
    /\ calls = <<>>
    /\ sentiment_scores = <<>>
    /\ frankenstein_all_with_sentiment = <<>>
    /\ character_sentiment_df = <<>>
    /\ frankenstein_locations_with_sentiment = <<>>
    /\ total_narrative_words = 0
    /\ location_sentiment_summary = <<>>
    /\ attempted = <<>>
    /\ written = <<>>

InitSeg ==
    /\ InitScript
    /\ data_files \in
          { <<[text_section |-> s, full_text |-> t,
               prefixed |-> TRUE, readable |-> TRUE]>> :
              s \in {"volume_1", "closing_letters"}, t \in TextsOf(MaxChunks) }
    /\ locations_csv = <<>>

NextSeg == Step1 \/ Step2 \/ Step3

SpecSeg == InitSeg /\ [][NextSeg]_vars

----------------------------------------------------------------------------
(* Corpora and curated location files for the whole script.                *)

VictorParagraph == <<Tok("VICTOR", 6), SP, Letters(11)>>

MonsterParagraph == <<Tok("monster", 7), SP, Letters(11)>>

File(text_section, full_text, prefixed, readable) ==
    [text_section |-> text_section, full_text |-> full_text,
     prefixed |-> prefixed, readable |-> readable]

FileChoices ==
    { File("closing_letters", VictorParagraph \o <<NL, NL>> \o MonsterParagraph,
           TRUE, TRUE),
      File("closing_letters", <<Letters(11)>>, TRUE, TRUE),
      File("closing_letters", VictorParagraph, TRUE, TRUE),
      File("volume_1",
           <<Tok("CHAPTER", 7), SP, Tok("V", 1), DOT, NL>> \o VictorParagraph
             \o <<SP, Letters(101)>>,
           TRUE, TRUE),
      File("volume_1", VictorParagraph, TRUE, TRUE),
      File("volume_2", VictorParagraph, TRUE, FALSE),
      File("notes", MonsterParagraph, FALSE, TRUE) }

\* the listings of data/: up to MaxFiles files, no two of one name
Corpora ==
    UNION { {c \in [1..n -> FileChoices] :
                \A a, b \in 1..n :
                    a # b => c[a].text_section # c[b].text_section} :
            n \in 0..MaxFiles }

ChapterV == <<Tok("CHAPTER", 7), SP, Tok("V", 1)>>

Location(text_section, chapter_letter, number, name, lat, lon) ==
    [text_section |-> text_section, chapter_letter |-> chapter_letter,
     paragraph_number |-> number, curated_name |-> name,
     lat |-> lat, lon |-> lon]

LocationChoices ==
    << Location("closing_letters", CLOSING_LETTERS, 1,
                Some("Geneva"), Some(46), Some(6)),
       Location("closing_letters", CLOSING_LETTERS, 1,
                Some("Ingolstadt"), Some(48), Some(11)),
       Location("closing_letters", CLOSING_LETTERS, 2,
                Some("Ingolstadt"), Some(48), Some(11)),
       Location("volume_1", ChapterV, 1, Some("Geneva"), Some(46), Some(6)),
       Location("volume_1", ChapterV, 1, Some("Geneva"), Some(46), None),
       Location("volume_1", ChapterV, 1, None, Some(46), Some(6)) >>

\* the curated files: up to MaxLocRows of the rows, in the order above
LocationFiles ==
    { SelectSeq(LocationChoices, LAMBDA r : r \in chosen) :
        chosen \in {c \in SUBSET Range(LocationChoices) :
                       Cardinality(c) <= MaxLocRows} }

Init ==
    /\ InitScript
    /\ data_files \in Corpora
    /\ locations_csv \in LocationFiles

Next ==
    \/ Step1 \/ Step2 \/ Step3
    \/ Step4 \/ Step4Missing
    \/ Step5 \/ Step5Fails
    \/ Step6NoColumn \/ Step6Apply \/ Step6Concat
    \/ Step7IdxmaxRaises \/ Step7NoColumn \/ Step7
    \/ Step8
    \/ Step9Write \/ Step9WriteFails \/ StepSummary

Spec == Init /\ [][Next]_vars

----------------------------------------------------------------------------
(* A corpus for the character analysis: one closing_letters file of up to  *)
(* MaxParas paragraphs.                                                    *)

ParaChoices ==
    { VictorParagraph,
      MonsterParagraph,
      <<Tok("Frankenstein", 12), SP, Tok("MONSTER", 7), SP, Letters(150)>>,
      <<Tok("grandfather", 11), SP, Letters(11)>>,
      <<Letters(11)>> }

\* the texts of 1..k paragraphs, a blank line between two paragraphs
RECURSIVE ParaTexts(_)
ParaTexts(k) ==
    IF k = 1 THEN ParaChoices
    ELSE ParaTexts(k - 1)
         \cup {t \o <<NL, NL>> \o q : t \in ParaTexts(k - 1), q \in ParaChoices}

InitChar ==
    /\ InitScript
    /\ data_files \in { <<File("closing_letters", t, TRUE, TRUE)>> :
                           t \in ParaTexts(MaxParas) }
    /\ locations_csv = <<LocationChoices[1]>>

NextChar ==
    \/ Step1 \/ Step2 \/ Step3 \/ Step4 \/ Step5
    \/ Step6Apply \/ Step6Concat
    \/ Step7IdxmaxRaises \/ Step7NoColumn \/ Step7

SpecChar == InitChar /\ [][NextChar]_vars

----------------------------------------------------------------------------
(* Properties of the segmenter and the splitter.                           *)

Segmented == pc \notin {"step1", "step2"}

SplitDone == pc \notin {"step1", "step2", "step3"}

IsSentinel(row) == row.text_section = "closing_letters"

\* the SubDocuments emitted for a section
SubDocsOf(text_section) ==
    SelectSeq(frankenstein_final_df, LAMBDA d : d.text_section = text_section)

\* the rows of the paragraph table under one (text_section, chapter_letter)
ParagraphsOf(text_section, chapter_letter) ==
    SelectSeq(frankenstein_paragraphs_df,
              LAMBDA p : p.text_section = text_section
                         /\ p.chapter_letter = chapter_letter)

\* the start of the first chapter marker after offset o, or end-of-text
NextChapterStart(t, o) ==
    LET later == {c.start : c \in {x \in Range(chapter_matches(t)) : x.start > o}}
    IN  IF later = {} THEN StrLen(t)
        ELSE CHOOSE m \in later : \A n \in later : m <= n

\* marker l starts strictly inside the span of some chapter marker
InsideChapterSpan(t, l) ==
    \E c \in Range(chapter_matches(t)) :
        c.start < l.start /\ l.start < NextChapterStart(t, c.start)

\* C1: in a section other than closing_letters a LETTER marker is discarded
\* exactly when it starts strictly between the start of a CHAPTER marker and
\* the start of the next one (end-of-text for the last), and every emitted
\* SubDocument comes from a surviving marker that is no such letter.
C1_EmbeddedLettersDiscarded ==
    Segmented =>
      \A row \in Range(frankenstein_df) :
        ~IsSentinel(row) =>
          LET t == row.full_text
              ms == all_matches(t)
          IN  /\ \A l \in Range(letter_matches(t)) :
                    (l \notin Range(ms)) <=> InsideChapterSpan(t, l)
              /\ \A d \in Range(SubDocsOf(row.text_section)) :
                    \E k \in 1..Len(ms) :
                        /\ d.chapter_letter = title(t, ms[k])
                        /\ d.full_text = content(t, ms, k)
                        /\ ~(ms[k].kind = "LETTER" /\ InsideChapterSpan(t, ms[k]))

\* C1 witness: a section with a letter marker inside a chapter span, a letter
\* marker outside every chapter span, and an emitted SubDocument
C1_Witness ==
    /\ Segmented
    /\ \E row \in Range(frankenstein_df) :
          /\ ~IsSentinel(row)
          /\ \E l \in Range(letter_matches(row.full_text)) :
                InsideChapterSpan(row.full_text, l)
          /\ \E l \in Range(letter_matches(row.full_text)) :
                ~InsideChapterSpan(row.full_text, l)
          /\ SubDocsOf(row.text_section) # <<>>

\* the SubDocuments whose label no other emitted SubDocument of the section has
UniquelyLabelled ==
    {k \in 1..Len(frankenstein_final_df) :
        \A j \in 1..Len(frankenstein_final_df) :
            (j # k /\ frankenstein_final_df[j].text_section
                        = frankenstein_final_df[k].text_section)
            => frankenstein_final_df[j].chapter_letter
                 # frankenstein_final_df[k].chapter_letter}

\* the 1-based positions, in the blank-line split of a body, of the fragments
\* that are longer than 10 characters once normalized
KeptFragments(full_text) ==
    {i \in 1..Len(ReSplit(full_text, 1, 1)) :
        StrLen(normalize(ReSplit(full_text, 1, 1)[i])) > MinParagraphLen}

\* C2 as claimed: the k-th paragraph emitted for a SubDocument has
\* paragraph_number k (dense numbering by post-filter position).
C2_DenseNumbering ==
    SplitDone =>
      \A k \in UniquelyLabelled :
        LET d == frankenstein_final_df[k]
            ps == ParagraphsOf(d.text_section, d.chapter_letter)
        IN  \A j \in 1..Len(ps) : ps[j].paragraph_number = j

\* C2 amended: the k-th paragraph emitted for a SubDocument carries the
\* 1-based position of its fragment in the blank-line split of the body,
\* dropped fragments counted: the numbers are exactly the positions of the
\* kept fragments, in increasing order.
C2_NumberedBySplitPosition ==
    SplitDone =>
      \A k \in UniquelyLabelled :
        LET d == frankenstein_final_df[k]
            ps == ParagraphsOf(d.text_section, d.chapter_letter)
            kept == KeptFragments(d.full_text)
        IN  /\ Len(ps) = Cardinality(kept)
            /\ \A j \in 1..Len(ps) :
                  /\ ps[j].paragraph_number \in kept
                  /\ Cardinality({i \in kept : i <= ps[j].paragraph_number}) = j

\* C2 witness: a paragraph emitted after a dropped fragment of its SubDocument
C2_Witness ==
    /\ SplitDone
    /\ \E k \in UniquelyLabelled :
          LET d == frankenstein_final_df[k]
              ps == ParagraphsOf(d.text_section, d.chapter_letter)
          IN  \E j \in 1..Len(ps) : ps[j].paragraph_number > j

\* C3 as claimed: no two rows of the paragraph table share (text_section,
\* chapter_letter, paragraph_number), and under each (text_section,
\* chapter_letter) the numbers increase in table order.
C3_UniqueIncreasingKeys ==
    SplitDone =>
      \A i, j \in 1..Len(frankenstein_paragraphs_df) :
        LET p == frankenstein_paragraphs_df[i]
            q == frankenstein_paragraphs_df[j]
        IN  (i < j /\ p.text_section = q.text_section
                   /\ p.chapter_letter = q.chapter_letter)
            => p.paragraph_number < q.paragraph_number

\* C4 as claimed: every emitted SubDocument, of every section, has a body
\* longer than 100 characters.
C4_EveryBodyLong ==
    Segmented =>
      \A d \in Range(frankenstein_final_df) : StrLen(d.full_text) > MinContentLen

\* C4 amended: in a section other than closing_letters the emitted
\* SubDocuments are exactly the candidate units whose trimmed body is longer
\* than 100 characters (100 or fewer: dropped, no placeholder), while the
\* closing_letters section yields exactly one SubDocument, its whole trimmed
\* text, whatever its length.
C4_BodyLongUnlessSentinel ==
    Segmented =>
      \A row \in Range(frankenstein_df) :
        LET t == row.full_text
            ms == all_matches(t)
            ds == SubDocsOf(row.text_section)
        IN  IF IsSentinel(row)
            THEN Len(ds) = 1 /\ ds[1].full_text = Strip(t)
            ELSE /\ \A d \in Range(ds) : StrLen(d.full_text) > MinContentLen
                 /\ Len(ds) = Cardinality({k \in 1..Len(ms) :
                                  StrLen(content(t, ms, k)) > MinContentLen})

\* C4 witness: a section with a candidate of exactly 100 characters, which is
\* dropped, and one of 101 characters, which is emitted
C4_Witness ==
    /\ Segmented
    /\ \E row \in Range(frankenstein_df) :
          LET t == row.full_text
              ms == all_matches(t)
          IN  /\ ~IsSentinel(row)
              /\ \E k \in 1..Len(ms) : StrLen(content(t, ms, k)) = MinContentLen
              /\ \E d \in Range(SubDocsOf(row.text_section)) :
                    StrLen(d.full_text) = MinContentLen + 1
              /\ Len(SubDocsOf(row.text_section)) < Len(ms)

\* the markers of a text that survive: every chapter marker, and every letter
\* marker that starts inside no chapter span
SurvivingMarkers(t) ==
    Range(chapter_matches(t))
    \cup {l \in Range(letter_matches(t)) : ~InsideChapterSpan(t, l)}

\* the k-th surviving marker in increasing start-offset order
MarkerAt(t, k) ==
    CHOOSE m \in SurvivingMarkers(t) :
        Cardinality({x \in SurvivingMarkers(t) : x.start < m.start}) = k - 1

\* the matched text of a marker uppercased, periods removed, trimmed
NormalizedLabel(t, m) == Strip(RemoveDots(Upper(SubSeq(t, m.i, m.j))))

\* the characters of t from offset a up to offset b
Slice(t, a, b) ==
    LET inside == {k \in 1..Len(t) :
                      Offset(t, k) >= a /\ Offset(t, k) + t[k].n <= b}
    IN  IF inside = {} THEN <<>>
        ELSE SubSeq(t, CHOOSE k \in inside : \A x \in inside : k <= x,
                       CHOOSE k \in inside : \A x \in inside : k >= x)

\* the trimmed text from the end of the k-th surviving marker to the start of
\* the next surviving marker, or to end-of-text for the last
BodyOf(t, k) ==
    Strip(Slice(t, MarkerAt(t, k).end,
                IF k < Cardinality(SurvivingMarkers(t))
                THEN MarkerAt(t, k + 1).start ELSE StrLen(t)))

\* the positions of the surviving markers whose trimmed body is long enough
LongBodied(t) ==
    {k \in 1..Cardinality(SurvivingMarkers(t)) :
        StrLen(BodyOf(t, k)) > MinContentLen}

\* C11: for a section other than closing_letters the emitted SubDocuments
\* are, in emission order, the surviving markers in increasing start-offset
\* order less those whose trimmed body has 100 characters or fewer; each
\* label is the marker's text uppercased, without periods, trimmed, and each
\* body is the trimmed text from the end of its marker to the start of the
\* next surviving marker (end-of-text for the last).
C11_LabelsFollowMarkerOrder ==
    Segmented =>
      \A row \in Range(frankenstein_df) :
        ~IsSentinel(row) =>
          LET t == row.full_text
              ds == SubDocsOf(row.text_section)
              kept == LongBodied(t)
          IN  /\ Len(ds) = Cardinality(kept)
              /\ \A j \in 1..Len(ds) :
                    LET k == CHOOSE k \in kept :
                                 Cardinality({x \in kept : x <= k}) = j
                    IN  /\ ds[j].chapter_letter = NormalizedLabel(t, MarkerAt(t, k))
                        /\ ds[j].full_text = BodyOf(t, k)

\* C11 witness: a section whose first surviving marker is a letter marker
\* with a short body, dropped, followed by a chapter marker that is emitted
\* with a body that trimming shortened
C11_Witness ==
    /\ Segmented
    /\ \E row \in Range(frankenstein_df) :
          LET t == row.full_text
              ds == SubDocsOf(row.text_section)
          IN  /\ ~IsSentinel(row)
              /\ Cardinality(SurvivingMarkers(t)) = 2
              /\ MarkerAt(t, 1).kind = "LETTER"
              /\ LongBodied(t) = {2}
              /\ Len(ds) = 1
              /\ StrLen(ds[1].full_text) < StrLen(t) - MarkerAt(t, 2).end

\* C17: in the output for a section other than closing_letters every
\* SubDocument that comes from a LETTER marker precedes every SubDocument
\* that comes from a CHAPTER marker, and a letter marker survives the filter
\* only if it starts before the first chapter marker of the section.
C17_LettersBeforeChapters ==
    Segmented =>
      \A row \in Range(frankenstein_df) :
        ~IsSentinel(row) =>
          LET t == row.full_text
              ms == all_matches(t)
              ds == SubDocsOf(row.text_section)
              FromLetter(d) == Head(d.chapter_letter).c = "LETTER"
              FromChapter(d) == Head(d.chapter_letter).c = "CHAPTER"
          IN  /\ \A m \in Range(ms) :
                    m.kind = "LETTER" =>
                      \A c \in Range(chapter_matches(t)) : m.start < c.start
              /\ \A i, j \in 1..Len(ds) :
                    (FromChapter(ds[i]) /\ FromLetter(ds[j])) => j < i
              /\ \A d \in Range(ds) : FromLetter(d) \/ FromChapter(d)

\* C17 witness: a section with a letter marker before the first chapter
\* marker and one after it, whose output holds a letter unit and then a
\* chapter unit
C17_Witness ==
    /\ Segmented
    /\ \E row \in Range(frankenstein_df) :
          LET t == row.full_text
              ds == SubDocsOf(row.text_section)
          IN  /\ ~IsSentinel(row)
              /\ \E l \in Range(letter_matches(t)) :
                    \E c \in Range(chapter_matches(t)) : l.start > c.start
              /\ Len(ds) = 2
              /\ Head(ds[1].chapter_letter).c = "LETTER"
              /\ Head(ds[2].chapter_letter).c = "CHAPTER"

\* C15: every paragraph text the splitter emits is a fixed point of its
\* normalization (trim, then every whitespace run to one space): it has no
\* whitespace at either end, no whitespace but single spaces between other
\* characters, and more than 10 characters.
C15_ParagraphsNormalized ==
    SplitDone =>
      \A p \in Range(frankenstein_paragraphs_df) :
        LET x == p.paragraph_text
        IN  /\ normalize(x) = x
            /\ StrLen(x) > 10
            /\ ~IsSpace(x[1])
            /\ ~IsSpace(x[Len(x)])
            /\ \A k \in 1..Len(x) :
                  IsSpace(x[k]) =>
                    /\ x[k] = SP
                    /\ k < Len(x) => ~IsSpace(x[k + 1])

\* C15 witness: an emitted paragraph whose fragment had, once trimmed, a
\* whitespace run that is not one single space
C15_Witness ==
    /\ SplitDone
    /\ \E d \in Range(frankenstein_final_df) :
          \E f \in Range(ReSplit(d.full_text, 1, 1)) :
              /\ normalize(f) # Strip(f)
              /\ \E p \in Range(frankenstein_paragraphs_df) :
                    p.paragraph_text = normalize(f)

----------------------------------------------------------------------------
(* Properties of the annotation, the aggregation and the run as a whole.   *)

\* the curated rows that have both coordinates
HasCoordinates(r) == r.lat # None /\ r.lon # None

\* paragraph p and curated row r carry the same (text_section,
\* chapter_letter, paragraph_number)
SameTriple(p, r) ==
    <<p.text_section, p.chapter_letter, p.paragraph_number>>
      = <<r.text_section, r.chapter_letter, r.paragraph_number>>

\* the annotated paragraphs with no curated entry that has coordinates
Unmatched ==
    {i \in 1..Len(frankenstein_all_with_sentiment) :
        \A r \in Range(frankenstein_manual_locations) :
            HasCoordinates(r)
            => ~SameTriple(frankenstein_all_with_sentiment[i], r)}

\* the (paragraph, curated row) pairs that stand behind LocationSummary g
PairsOf(g) ==
    {ij \in (1..Len(frankenstein_all_with_sentiment))
             \X (1..Len(frankenstein_manual_locations)) :
        LET r == frankenstein_manual_locations[ij[2]]
        IN  /\ HasCoordinates(r)
            /\ SameTriple(frankenstein_all_with_sentiment[ij[1]], r)
            /\ r.curated_name = Some(g.curated_name)
            /\ r.lat = Some(g.lat)
            /\ r.lon = Some(g.lon)}

\* the words of the paragraphs of a set of pairs, each pair counted
RECURSIVE WordsOfPairs(_)
WordsOfPairs(pairs) ==
    IF pairs = {} THEN 0
    ELSE LET ij == CHOOSE x \in pairs : TRUE
         IN  WordCount(frankenstein_all_with_sentiment[ij[1]].paragraph_text)
             + WordsOfPairs(pairs \ {ij})

\* the words of the annotated paragraphs at a set of positions
RECURSIVE WordsOfRows(_)
WordsOfRows(rows) ==
    IF rows = {} THEN 0
    ELSE LET i == CHOOSE x \in rows : TRUE
         IN  WordCount(frankenstein_all_with_sentiment[i].paragraph_text)
             + WordsOfRows(rows \ {i})

LocationsDone == pc \in {"step9", "done"} \/ attempted # <<>>

\* C5: a paragraph with no curated entry (entries lacking a coordinate set
\* aside) is in no row of the merge and behind no LocationSummary: every
\* paragraph_count and total_words is made of matched (paragraph, entry)
\* pairs alone; yet total_narrative_words is the words of the whole annotated
\* table, the unmatched paragraphs included.
C5_UnmatchedOnlyInDenominator ==
    LocationsDone =>
      /\ \A g \in Range(location_sentiment_summary) :
            /\ g.paragraph_count = Cardinality(PairsOf(g))
            /\ g.total_words = WordsOfPairs(PairsOf(g))
      /\ \A i \in Unmatched :
            \A m \in Range(frankenstein_locations_with_sentiment) :
                ~SameTriple(frankenstein_all_with_sentiment[i], m)
      /\ total_narrative_words
            = WordsOfRows(1..Len(frankenstein_all_with_sentiment) \ Unmatched)
              + WordsOfRows(Unmatched)

\* C5 witness: locations were summarized, and a paragraph is unmatched
\* although a curated row without coordinates carries its key, and another
\* paragraph of its unit is matched
C5_Witness ==
    /\ LocationsDone
    /\ location_sentiment_summary # <<>>
    /\ \E i \in Unmatched :
          \E r \in Range(frankenstein_manual_locations) :
              SameTriple(frankenstein_all_with_sentiment[i], r)
    /\ \E i \in Unmatched :
          \E j \in 1..Len(frankenstein_all_with_sentiment) :
              /\ j \notin Unmatched
              /\ same_key_any_paragraph(frankenstein_all_with_sentiment[i],
                                        frankenstein_all_with_sentiment[j])

AnnotationDone == frankenstein_all_with_sentiment # <<>>

\* C6: the annotated table has one row per paragraph, in the same order; the
\* classifier was called once per paragraph, on that paragraph's text; a row
\* carries the scores of its own call, and four nulls when that call raised.
C6_OneRowPerParagraphOwnScores ==
    AnnotationDone =>
      /\ Len(frankenstein_all_with_sentiment) = Len(frankenstein_paragraphs_df)
      /\ Len(calls) = Len(frankenstein_paragraphs_df)
      /\ \A i \in 1..Len(frankenstein_paragraphs_df) :
            LET row == frankenstein_all_with_sentiment[i]
                p == frankenstein_paragraphs_df[i]
                o == calls[i].outcome
            IN  /\ <<row.text_section, row.chapter_letter,
                      row.paragraph_number, row.paragraph_text>>
                     = <<p.text_section, p.chapter_letter,
                         p.paragraph_number, p.paragraph_text>>
                /\ calls[i].text = p.paragraph_text
                /\ IF o.ok
                   THEN /\ row.roberta_neg = <<o.neg>>
                        /\ row.roberta_neu = <<o.neu>>
                        /\ row.roberta_pos = <<o.pos>>
                        /\ row.roberta_compound # <<>>
                   ELSE /\ row.roberta_neg = <<>>
                        /\ row.roberta_neu = <<>>
                        /\ row.roberta_pos = <<>>
                        /\ row.roberta_compound = <<>>

\* C6 witness: an annotated table in which the scoring of one paragraph
\* raised and a later paragraph, and an earlier one, were scored
C6_Witness ==
    /\ AnnotationDone
    /\ \E i, j, k \in 1..Len(calls) :
          /\ i < j /\ j < k
          /\ calls[i].outcome.ok /\ ~calls[j].outcome.ok /\ calls[k].outcome.ok
          /\ calls[i].outcome # calls[k].outcome

ScoringFailed == \E k \in 1..Len(calls) : ~calls[k].outcome.ok

\* C7 as claimed: a run in which the scoring of some paragraphs failed is
\* never aborted by it: if the run crashes, then for another reason (a write
\* that failed, or no character being named in any paragraph).
C7_ScoringFailureNeverAborts ==
    (ScoringFailed /\ pc = "crashed")
      => error \in {"OSError: write failed", "KeyError: 'Avg_Sentiment'"}

\* C8 as claimed: when the run has ended and the write of some output file
\* failed, every output file was attempted.
C8_WritesIndependent ==
    (pc \in {"crashed", "done"} /\ Len(attempted) > Len(written))
      => \A k \in 1..Len(OutputFiles) : OutputFiles[k] \in Range(attempted)

FatalLoadFailure ==
    \E m \in Range(log) :
        m.msg \in {"Manual locations file not found", "Error loading model"}

\* C9: once the curated locations file was found missing, or loading the
\* model failed, the script has exited: no paragraph has been or is scored,
\* no aggregate is built and no output file is opened.
C9_AbortOnFatalLoadFailure ==
    FatalLoadFailure =>
      /\ pc = "exited"
      /\ calls = <<>> /\ sentiment_scores = <<>>
      /\ frankenstein_all_with_sentiment = <<>>
      /\ character_sentiment_df = <<>>
      /\ frankenstein_locations_with_sentiment = <<>>
      /\ location_sentiment_summary = <<>>
      /\ attempted = <<>> /\ written = <<>>

\* C9 witness: the script has exited on a model that failed to load, with
\* paragraphs waiting to be scored
C9_Witness ==
    /\ pc = "exited"
    /\ \E m \in Range(log) : m.msg = "Error loading model"
    /\ frankenstein_paragraphs_df # <<>>

\* the sections, other than closing_letters, whose text holds no marker
ZeroMarkerSections ==
    {row \in Range(frankenstein_df) :
        ~IsSentinel(row)
        /\ chapter_matches(row.full_text) = <<>>
        /\ letter_matches(row.full_text) = <<>>}

\* C10 as claimed: a section without markers yields no SubDocument and, by
\* the end of the run, something printed reports the condition for that
\* section (a message about the section other than the confirmation that its
\* file was read).
C10_ZeroMarkerSectionSurfaced ==
    \A row \in ZeroMarkerSections :
        /\ Segmented => SubDocsOf(row.text_section) = <<>>
        /\ pc = "done" =>
              \E m \in Range(log) :
                  m.section = row.text_section /\ m.msg # "Read"

----------------------------------------------------------------------------
(* Properties of the annotation and of the character analysis.             *)

CharactersDone == pc \in {"step8", "step9", "done"}

CharacterNames == {principal_characters[k].name : k \in 1..Len(principal_characters)}

\* the characters a word of the corpus names: the word holds, whatever its
\* case, one of the character's variants
Mentions(word) ==
    CASE word \in {"VICTOR", "Victor", "Frankenstein"} -> {"Victor"}
      [] word \in {"monster", "MONSTER"} -> {"Monster"}
      [] word = "grandfather" -> {"Father"}
      [] OTHER -> {}

\* the characters a paragraph text names
NamedIn(text) == UNION {Mentions(text[k].c) : k \in 1..Len(text)}

\* the rows of the annotated table attributed to a character
AttributedTo(name) ==
    {i \in 1..Len(frankenstein_all_with_sentiment) :
        name \in NamedIn(frankenstein_all_with_sentiment[i].paragraph_text)}

\* the rows of the character table for one character
RowsFor(name) ==
    {k \in 1..Len(character_sentiment_df) :
        character_sentiment_df[k].Character = name}

\* C12: a paragraph is attributed to a character exactly when its text holds
\* one of the character's variants as a substring, case ignored; the
\* character table has a row for a character exactly when a paragraph is
\* attributed to it, one row only, and its Total_Mentions is the number of
\* attributed paragraphs.
C12_RowPerNamedCharacter ==
    CharactersDone =>
      \A name \in CharacterNames :
        /\ (RowsFor(name) # {}) <=> (AttributedTo(name) # {})
        /\ Cardinality(RowsFor(name)) <= 1
        /\ \A k \in RowsFor(name) :
              character_sentiment_df[k].Total_Mentions
                = Cardinality(AttributedTo(name))

\* C12 witness: a character table built from a paragraph that names two
\* characters, with a row for Father, named only inside "grandfather", a
\* row for Victor that counts two paragraphs, and no row for Elizabeth
C12_Witness ==
    /\ CharactersDone
    /\ \E i \in 1..Len(frankenstein_all_with_sentiment) :
          Cardinality(NamedIn(frankenstein_all_with_sentiment[i].paragraph_text))
            = 2
    /\ RowsFor("Father") # {}
    /\ RowsFor("Elizabeth") = {}
    /\ \E k \in RowsFor("Victor") : character_sentiment_df[k].Total_Mentions = 2

\* the compound of a row of the annotated table
CompoundOf(i) == frankenstein_all_with_sentiment[i].roberta_compound

\* the attributed rows whose compound is above, below, or between the
\* thresholds 0.1 and -0.1 (a null compound is neither above nor below)
PositiveRows(name) ==
    {i \in AttributedTo(name) :
        CompoundOf(i) # None /\ CompoundOf(i)[1] > PositiveAbove}

NegativeRows(name) ==
    {i \in AttributedTo(name) :
        CompoundOf(i) # None /\ CompoundOf(i)[1] < NegativeBelow}

\* C13: in every row of the character table the positive, negative and
\* neutral mentions are non-negative and add up to Total_Mentions; the
\* positive ones are the attributed paragraphs with compound > 0.1, the
\* negative ones those with compound < -0.1, and every other attributed
\* paragraph, one with a null compound included, is neutral.
C13_MentionCountsPartition ==
    CharactersDone =>
      \A k \in 1..Len(character_sentiment_df) :
        LET r == character_sentiment_df[k]
            name == r.Character
        IN  /\ r.Positive_Mentions = Cardinality(PositiveRows(name))
            /\ r.Negative_Mentions = Cardinality(NegativeRows(name))
            /\ r.Neutral_Mentions =
                  Cardinality(AttributedTo(name)
                              \ (PositiveRows(name) \cup NegativeRows(name)))
            /\ r.Positive_Mentions >= 0
            /\ r.Negative_Mentions >= 0
            /\ r.Neutral_Mentions >= 0
            /\ r.Positive_Mentions + r.Negative_Mentions + r.Neutral_Mentions
                  = r.Total_Mentions

\* C13 witness: a character with a positive, a negative and a null-compound
\* paragraph, whose row counts one mention of each kind
C13_Witness ==
    /\ CharactersDone
    /\ \E k \in 1..Len(character_sentiment_df) :
          LET r == character_sentiment_df[k]
          IN  /\ \E i \in AttributedTo(r.Character) : CompoundOf(i) = None
              /\ r.Positive_Mentions = 1
              /\ r.Negative_Mentions = 1
              /\ r.Neutral_Mentions = 1

\* the attributed rows of a character whose compound is not null
ScoredRows(name) == {i \in AttributedTo(name) : CompoundOf(i) # None}

\* the first row, in table order, with the greatest (sign 1) or the least
\* (sign -1) compound among the scored rows of a character
FirstExtreme(name, sign) ==
    CHOOSE i \in ScoredRows(name) :
        \A j \in ScoredRows(name) :
            /\ sign * CompoundOf(j)[1] <= sign * CompoundOf(i)[1]
            /\ CompoundOf(j) = CompoundOf(i) => i <= j

\* r holds the first n characters of text (all of it when it is shorter)
IsFirstChars(r, text, n) ==
    /\ StrLen(r) = (IF StrLen(text) < n THEN StrLen(text) ELSE n)
    /\ Len(r) <= Len(text)
    /\ \A k \in 1..Len(r) :
          /\ r[k].c = text[k].c
          /\ r[k].n <= text[k].n
          /\ k < Len(r) => r[k].n = text[k].n

\* snippet is the first 150 characters of text followed by '...'
IsSnippetOf(snippet, text) ==
    /\ Len(snippet) >= 1
    /\ snippet[Len(snippet)] = Tok("...", 3)
    /\ IsFirstChars(SubSeq(snippet, 1, Len(snippet) - 1), text, 150)

\* C14: for a character with a scored attributed paragraph, the most positive
\* score and text are those of the attributed paragraph with the greatest
\* compound, the most negative ones those of the one with the least, the
\* first in table order on a tie; the text is the paragraph's first 150
\* characters followed by '...'.
C14_ExtremesFirstOnTies ==
    CharactersDone =>
      \A k \in 1..Len(character_sentiment_df) :
        LET r == character_sentiment_df[k]
            hi == FirstExtreme(r.Character, 1)
            lo == FirstExtreme(r.Character, -1)
        IN  ScoredRows(r.Character) # {} =>
              /\ r.Most_Positive_Score = CompoundOf(hi)
              /\ r.Most_Negative_Score = CompoundOf(lo)
              /\ IsSnippetOf(r.Most_Positive_Text,
                     frankenstein_all_with_sentiment[hi].paragraph_text)
              /\ IsSnippetOf(r.Most_Negative_Text,
                     frankenstein_all_with_sentiment[lo].paragraph_text)

\* C14 witness: a character whose first paragraph, longer than 150
\* characters, ties for the greatest compound with a later, different
\* paragraph, and whose row shows 150 characters of the first one
C14_Witness ==
    /\ CharactersDone
    /\ \E k \in 1..Len(character_sentiment_df) :
          LET r == character_sentiment_df[k]
              hi == FirstExtreme(r.Character, 1)
          IN  /\ ScoredRows(r.Character) # {}
              /\ \E j \in ScoredRows(r.Character) :
                    /\ j > hi
                    /\ CompoundOf(j) = CompoundOf(hi)
                    /\ frankenstein_all_with_sentiment[j].paragraph_text
                         # frankenstein_all_with_sentiment[hi].paragraph_text
              /\ StrLen(frankenstein_all_with_sentiment[hi].paragraph_text) > 150
              /\ StrLen(r.Most_Positive_Text) = 153
              /\ r.Most_Negative_Score # r.Most_Positive_Score

\* C16: the compound of every scored paragraph is (pos - neg) * (1 - neu) of
\* the three scores the classifier gave for that paragraph, which the row
\* carries too; neg 0.2, neu 0.3, pos 0.5 give 0.21.
C16_CompoundDerived ==
    AnnotationDone =>
      \A i \in 1..Len(frankenstein_all_with_sentiment) :
        LET row == frankenstein_all_with_sentiment[i]
            o == calls[i].outcome
        IN  o.ok =>
              /\ CompoundOf(i) # None
              /\ CompoundOf(i)[1] = (o.pos - o.neg) * (10 - o.neu)
              /\ CompoundOf(i)[1]
                   = (row.roberta_pos[1] - row.roberta_neg[1])
                       * (10 - row.roberta_neu[1])
              /\ (o.neg = 2 /\ o.neu = 3 /\ o.pos = 5) => CompoundOf(i)[1] = 21

\* C16 witness: a paragraph scored neg 0.2, neu 0.3, pos 0.5, with compound
\* 0.21, next to one with other scores and another compound
C16_Witness ==
    /\ AnnotationDone
    /\ \E i, j \in 1..Len(frankenstein_all_with_sentiment) :
          /\ calls[i].outcome = [ok |-> TRUE, neg |-> 2, neu |-> 3, pos |-> 5]
          /\ CompoundOf(i) = Some(21)
          /\ calls[j].outcome.ok
          /\ CompoundOf(j) # None
          /\ CompoundOf(j) # CompoundOf(i)

----------------------------------------------------------------------------
(* Properties of the location analysis: how often a paragraph is counted.  *)

\* the LocationSummary rows that annotated paragraph i stands behind
SummariesOf(i) ==
    {k \in 1..Len(location_sentiment_summary) :
        \E ij \in PairsOf(location_sentiment_summary[k]) : ij[1] = i}

\* C18 as claimed: every annotated paragraph stands behind at most one
\* LocationSummary; the paragraph_count of all rows together is at most the
\* number of annotated paragraphs, their total_words at most
\* total_narrative_words, their narrative_percent at most 100.
C18_CountedAtMostOnce ==
    LocationsDone =>
      LET g == location_sentiment_summary
      IN  /\ \A i \in 1..Len(frankenstein_all_with_sentiment) :
                Cardinality(SummariesOf(i)) <= 1
          /\ SumOf([k \in 1..Len(g) |-> g[k].paragraph_count])
                <= Len(frankenstein_all_with_sentiment)
          /\ SumOf([k \in 1..Len(g) |-> g[k].total_words])
                <= total_narrative_words
          /\ SumOf([k \in 1..Len(g) |-> g[k].narrative_percent]) <= 10000


====
